---- MODULE Spec2Model ----
(***************************************************************************)
(* A model of jsonapi.go: the JSONAPI client, the per-call Request handle, *)
(* and Request.execute with handleSuccess, handleHTTPError and body.       *)
(* Every caller is a process that walks through execute step by step; the  *)
(* transport (http.Client.Do), the middleware functions and the JSON       *)
(* library are the environment, whose results are drawn from small sets.   *)
(* A Request handle serves one verb call, and the response target is a     *)
(* pointer to a struct with one integer member x.                          *)
(***************************************************************************)
EXTENDS Integers, Sequences, FiniteSets, TLC

\* ------------------------------------------------------------- bounds
NumCallers == 2
MaxMiddleware == 2

Callers == 1..NumCallers
ObjIds == 1..NumCallers

\* ------------------------------------------------------------- inputs
Verbs == {"GET", "PUT", "POST", "DELETE"}
BodyVerbs == {"PUT", "POST"}

\* Base URLs and paths; the ones with an invalid percent escape make
\* url.Parse fail.
BaseURLs == {"http://h", "http://h%zz"}
Paths == {"/a", "/%zz"}
BadURLParts == {"http://h%zz", "/%zz"}

\* url.Values arguments, by name, and what Values.Encode makes of them
\* (keys sorted, key=value pairs joined by &).
Params == {"none", "ba"}
Encode(p) == IF p = "none" THEN "" ELSE "a=1&b=2"

\* Request payloads: nil, two values json.Marshal accepts, and a channel,
\* which json.Marshal rejects.
Payloads == {"nil", "v1", "chan"}
Marshal(p) ==
  IF p = "chan" THEN [err |-> TRUE, bytes |-> "nil"]
  ELSE [err |-> FALSE, bytes |-> IF p = "v1" THEN "{\"v\":1}" ELSE "{\"v\":2}"]

\* The middleware functions a caller may register.
MwIds == {"mwA", "mwB"}

\* ------------------------------------------------------------- http.Header
HeaderNames == {"X-A", "x-a", "X-B"}
CanonNames == {"X-A", "X-B"}
\* textproto.CanonicalMIMEHeaderKey on the names above.
Canon(k) == IF k = "x-a" THEN "X-A" ELSE k

EmptyHeader == [n \in CanonNames |-> <<>>]
HeaderSet(h, k, v) == [h EXCEPT ![Canon(k)] = <<v>>]
HeaderAddOverwrites(h, k, v) == [h EXCEPT ![Canon(k)] = <<v>>]
HeaderAdd(h, k, v) == [h EXCEPT ![Canon(k)] = Append(@, v)]
HeaderGet(h, k) == IF h[Canon(k)] = <<>> THEN "" ELSE Head(h[Canon(k)])

\* The values a client's static Headers map gives to each key, and the maps
\* a client may be constructed with (a Go map: keys are not canonicalized).
StaticValue == [k \in HeaderNames |->
                  IF k = "X-A" THEN "s1" ELSE IF k = "x-a" THEN "s2" ELSE "s3"]
StaticMaps == {[k \in S |-> StaticValue[k]] : S \in SUBSET {"X-A", "x-a"}}
PerCallValue == "p1"

\* The orders in which `range` may visit the keys of a Go map.
Orders(S) == {o \in [1..Cardinality(S) -> S] : \A i, j \in DOMAIN o : i # j => o[i] # o[j]}

RECURSIVE AddAll(_, _, _)
AddAll(h, m, order) ==
  IF order = <<>> THEN h
  ELSE AddAll(HeaderAdd(h, Head(order), m[Head(order)]), m, Tail(order))

\* ------------------------------------------------------------- requests
NilURL == <<"nil">>
\* http.NewRequest("GET", "", nil)
NewRequest == [Method |-> "GET", URL |-> <<"">>, Header |-> EmptyHeader, Body |-> "nil"]

ParseOK(base, path) == base \notin BadURLParts /\ path \notin BadURLParts
FullURL(base, path, p) == <<base, path, "?", Encode(p)>>

NoCall == [verb |-> "", path |-> "", params |-> "none", payload |-> "nil",
           perCall |-> EmptyHeader]

\* ------------------------------------------------------------- JSON bodies
\* A JSON value of a body's top-level object, or its absence.
Absent == [t |-> "absent", s |-> "", n |-> 0]
Null == [t |-> "null", s |-> "", n |-> 0]
Str(s) == [t |-> "str", s |-> s, n |-> 0]
Num(n) == [t |-> "num", s |-> "", n |-> n]

NoFields == [error |-> Absent, status |-> Absent, message |-> Absent, x |-> Absent]
\* A response body: its text, what the JSON scanner makes of it (empty,
\* invalid, null, scalar, object), and the members of the object.
Raw(text, syntax) == [raw |-> text, syntax |-> syntax, fields |-> NoFields]
Obj(text, fields) == [raw |-> text, syntax |-> "object", fields |-> fields]

BodyEmpty == Raw("", "empty")
BodyText == Raw("boom", "invalid")
BodyNull == Raw("null", "null")
BodyString == Raw("\"boom\"", "scalar")
BodyFull == Obj("{\"error\":\"not_found\",\"status\":404,\"message\":\"missing\"}",
                [NoFields EXCEPT !.error = Str("not_found"), !.status = Num(404),
                                 !.message = Str("missing")])
BodyMessage == Obj("{\"message\":\"missing\",\"error\":null}",
                   [NoFields EXCEPT !.message = Str("missing"), !.error = Null])
BodyBadType == Obj("{\"status\":\"x\",\"message\":\"m\"}",
                   [NoFields EXCEPT !.status = Str("x"), !.message = Str("m")])
BodyX == Obj("{\"x\":1}", [NoFields EXCEPT !.x = Num(1)])
BodyXBad == Obj("{\"x\":\"one\"}", [NoFields EXCEPT !.x = Str("one")])

Bodies == {BodyEmpty, BodyText, BodyNull, BodyString, BodyFull, BodyMessage,
           BodyBadType, BodyX, BodyXBad}

\* encoding/json on one struct field: an absent or null member leaves the
\* field alone, a member of the field's type sets it, any other member
\* leaves it alone and makes Unmarshal return an UnmarshalTypeError.
DecodeField(v, want, old) ==
  IF v.t \in {"absent", "null"} THEN [val |-> old, err |-> FALSE]
  ELSE IF v.t = want THEN [val |-> IF want = "str" THEN v.s ELSE v.n, err |-> FALSE]
  ELSE [val |-> old, err |-> TRUE]

\* json.Unmarshal(body, &Error): a body the scanner rejects changes nothing.
UnmarshalError(b, e) ==
  IF b.syntax \in {"empty", "invalid", "scalar"} THEN [val |-> e, err |-> TRUE]
  ELSE IF b.syntax = "null" THEN [val |-> e, err |-> FALSE]
  ELSE LET fe == DecodeField(b.fields.error, "str", e.Error)
           fs == DecodeField(b.fields.status, "num", e.Status)
           fm == DecodeField(b.fields.message, "str", e.Message)
       IN [val |-> [Error |-> fe.val, Status |-> fs.val, Message |-> fm.val],
           err |-> fe.err \/ fs.err \/ fm.err]

\* json.Unmarshal(body, &data) where data holds the caller's pointer to a
\* struct { X int `json:"x"` }.
UnmarshalTarget(b, t) ==
  IF b.syntax \in {"empty", "invalid", "scalar"} THEN [val |-> t, err |-> TRUE]
  ELSE IF b.syntax = "null" THEN [val |-> t, err |-> FALSE]
  ELSE LET fx == DecodeField(b.fields.x, "num", t.x)
       IN [val |-> [x |-> fx.val], err |-> fx.err]

\* The value the caller's response target holds before the call.
TargetBefore == [x |-> 7]

\* ------------------------------------------------------------- responses
StatusCodes == {200, 204, 299, 300, 404, 500}
\* http.Response.Status for a status code.
StatusLine(code) ==
  CASE code = 200 -> "200 OK"
    [] code = 204 -> "204 No Content"
    [] code = 299 -> "299 "
    [] code = 300 -> "300 Multiple Choices"
    [] code = 404 -> "404 Not Found"
    [] OTHER -> "500 Internal Server Error"

\* A response of the transport: readErr says that reading its body fails
\* before the end of the stream.
Response(code, b, readErr) ==
  [StatusCode |-> code, Status |-> StatusLine(code), Body |-> b, readErr |-> readErr]
Responses == {Response(code, b, re) : code \in StatusCodes, b \in Bodies, re \in BOOLEAN}
\* execute's named result response before client.Do has returned one.
NoResponse == [StatusCode |-> 0, Status |-> "", Body |-> BodyEmpty, readErr |-> FALSE]

\* ------------------------------------------------------------- the log
Ev(e) == [e |-> e, id |-> "", ok |-> TRUE]
EvMerge == Ev("merge")
EvMiddleware(m, ok) == [e |-> "mw", id |-> m, ok |-> ok]
EvDo(ok) == [e |-> "do", id |-> "", ok |-> ok]
EvRead(eof) == [e |-> "read", id |-> "", ok |-> eof]
EvClose == Ev("close")
OnSuccess == Ev("onSuccess")
OnHTTPError == Ev("onHTTPError")
OnInternalError(e) == [e |-> "onInternalError", id |-> e, ok |-> TRUE]

CallbackNames == {"onSuccess", "onHTTPError", "onInternalError"}
Select(s, names) == SelectSeq(s, LAMBDA ev : ev.e \in names)
Callbacks(c_log) == Select(c_log, CallbackNames)
Count(s, name) == Len(Select(s, {name}))

NoArgs == [Status |-> 0, Message |-> "", Error |-> ""]

VARIABLES
  BaseURL,      \* JSONAPI.BaseURL
  Headers,      \* JSONAPI.Headers
  middleware,   \* JSONAPI.middleware
  useLog,       \* the argument lists of the Use calls so far, in call order
  heap,         \* the http.Request objects, by object id
  pc,           \* each caller's position
  r,            \* each caller's *Request handle: the id of its object, 0 if none
  call,         \* the arguments of each caller's verb call
  log,          \* what execute has done so far for each caller, in program order
  err,          \* execute's named result err
  sent,         \* the request client.Do was given
  resp,         \* the response client.Do returned
  target,       \* the value behind the caller's responseBody pointer
  httpArgs      \* the arguments onHTTPError was called with

vars == <<BaseURL, Headers, middleware, useLog, heap, pc, r, call, log, err,
          sent, resp, target, httpArgs>>

\* ------------------------------------------------------------- the code
\* JSONAPI.R: a new Request with a new http.Request of its own. `free` are
\* the object ids no caller holds.
Min(S) == CHOOSE m \in S : \A n \in S : m <= n
RShared(free) == [id |-> Min(ObjIds), request |-> NewRequest]
R(free) == [id |-> Min(free), request |-> NewRequest]

Free == {id \in ObjIds : \A c \in Callers : r[c] # id}

\* JSONAPI.Use
UsePrepend(mws, mw) == mw \o mws
UseAppend(mws, mw) == mws \o mw

\* The non-empty argument lists of Use that fit in `room` more entries.
UseArgs(room) == UNION {[1..n -> MwIds] : n \in 1..room}

\* Request.execute up to the header merge: the method, the URL, the body.
\* The test of err that follows the marshalling is never true there.
executeBuildNoReturn(base, rq, cl) ==
  LET rq1 == [rq EXCEPT !.Method = cl.verb, !.URL = FullURL(base, cl.path, cl.params)]
  IN IF ~ParseOK(base, cl.path)
     THEN [request |-> [rq1 EXCEPT !.URL = NilURL], err |-> "urlparse",
           log |-> <<>>, pc |-> "done"]
     ELSE IF cl.payload # "nil" /\ Marshal(cl.payload).err
     THEN [request |-> rq1, err |-> "marshal",
           log |-> <<OnInternalError("marshal")>>, pc |-> "merge"]
     ELSE [request |-> rq1, err |-> "nil", log |-> <<>>, pc |-> "merge"]
executeBuild(base, rq, cl) ==
  LET rq1 == [rq EXCEPT !.Method = cl.verb]
      rq2 == [rq1 EXCEPT !.URL = FullURL(base, cl.path, cl.params)]
  IN IF ~ParseOK(base, cl.path)
     THEN [request |-> [rq1 EXCEPT !.URL = NilURL], err |-> "urlparse",
           log |-> <<>>, pc |-> "done"]
     ELSE IF cl.payload # "nil"
     THEN IF Marshal(cl.payload).err
          THEN [request |-> rq2, err |-> "marshal",
                log |-> <<OnInternalError("marshal")>>, pc |-> "done"]
          ELSE [request |-> [rq2 EXCEPT !.Body = Marshal(cl.payload).bytes],
                err |-> "nil", log |-> <<>>, pc |-> "merge"]
     ELSE [request |-> rq2, err |-> "nil", log |-> <<>>, pc |-> "merge"]

\* The status test of execute.
IsHTTPErrorFrom400(code) == code >= 400
IsHTTPError(code) == code >= 300

\* body: ReadAll, which stops at the end of the stream or at a read error,
\* then Close.
bodyLeaksOnError(response) ==
  [data |-> IF response.readErr THEN "" ELSE response.Body.raw,
   err |-> response.readErr,
   log |-> IF response.readErr THEN <<EvRead(FALSE)>> ELSE <<EvRead(TRUE), EvClose>>]
body(response) ==
  [data |-> IF response.readErr THEN "" ELSE response.Body.raw,
   err |-> response.readErr,
   log |-> <<EvRead(~response.readErr), EvClose>>]

handleSuccessAlwaysDecodes(response, data) ==
  LET b == body(response)
      u == UnmarshalTarget(response.Body, data)
  IN IF b.err
     THEN [log |-> b.log \o <<OnInternalError("read")>>, target |-> data]
     ELSE IF u.err
     THEN [log |-> b.log \o <<OnInternalError("decode")>>, target |-> u.val]
     ELSE [log |-> b.log \o <<OnSuccess>>, target |-> u.val]
handleSuccess(response, data) ==
  LET b == body(response)
      u == UnmarshalTarget(response.Body, data)
  IN IF b.err
     THEN [log |-> b.log \o <<OnInternalError("read")>>, target |-> data]
     ELSE IF b.data # ""
     THEN IF u.err
          THEN [log |-> b.log \o <<OnInternalError("decode")>>, target |-> u.val]
          ELSE [log |-> b.log \o <<OnSuccess>>, target |-> u.val]
     ELSE [log |-> b.log \o <<OnSuccess>>, target |-> data]

handleHTTPErrorSwapped(response) ==
  LET b == body(response)
      e0 == [Status |-> response.StatusCode, Message |-> response.Status, Error |-> b.data]
  IN IF b.err
     THEN [log |-> b.log \o <<OnInternalError("read")>>, args |-> NoArgs]
     ELSE [log |-> b.log \o <<OnHTTPError>>,
           args |-> UnmarshalError(response.Body, e0).val]
handleHTTPError(response) ==
  LET b == body(response)
      e0 == [Status |-> response.StatusCode, Message |-> b.data, Error |-> response.Status]
  IN IF b.err
     THEN [log |-> b.log \o <<OnInternalError("read")>>, args |-> NoArgs]
     ELSE [log |-> b.log \o <<OnHTTPError>>,
           args |-> UnmarshalError(response.Body, e0).val]

\* The number of middleware functions execute has called for caller c.
MwDone(c) == Count(log[c], "mw")


\* ------------------------------------------------------------- actions
Idle == \A c \in Callers : pc[c] = "idle"

\* jsonAPI.Use(mw...), called while no request is in flight.
Use ==
  /\ Idle
  /\ Len(middleware) < MaxMiddleware
  /\ \E mw \in UseArgs(MaxMiddleware - Len(middleware)) :
       /\ middleware' = UseAppend(middleware, mw)
       /\ useLog' = Append(useLog, mw)
  /\ UNCHANGED <<BaseURL, Headers, heap, pc, r, call, log, err, sent, resp,
                 target, httpArgs>>

\* jsonAPI.R(), called by a caller that goes on to set headers.
NewHandle(c) ==
  /\ pc[c] = "idle"
  /\ Free # {}
  /\ LET h == R(Free)
     IN /\ r' = [r EXCEPT ![c] = h.id]
        /\ heap' = [heap EXCEPT ![h.id] = h.request]
  /\ pc' = [pc EXCEPT ![c] = "built"]
  /\ UNCHANGED <<BaseURL, Headers, middleware, useLog, call, log, err, sent,
                 resp, target, httpArgs>>

\* r.SetHeader(key, value)
SetHeader(c) ==
  /\ pc[c] = "built"
  /\ \E k \in HeaderNames :
       heap' = [heap EXCEPT ![r[c]].Header = HeaderSet(@, k, PerCallValue)]
  /\ UNCHANGED <<BaseURL, Headers, middleware, useLog, pc, r, call, log, err,
                 sent, resp, target, httpArgs>>

\* The arguments of a verb method: Get and Delete pass a nil requestBody.
CallArgs(verbs, paths, params, payloads, perCall) ==
  {[verb |-> v, path |-> p, params |-> q, payload |-> b, perCall |-> perCall] :
     v \in verbs, p \in paths, q \in params, b \in payloads} \cap
  {cl \in [verb : verbs, path : paths, params : params, payload : payloads,
           perCall : {perCall}] : cl.verb \notin BodyVerbs => cl.payload = "nil"}

\* r.Get, r.Put, r.Post, r.Delete on a handle obtained from R.
RequestVerb(c, verbs, paths, params, payloads) ==
  /\ pc[c] = "built"
  /\ \E cl \in CallArgs(verbs, paths, params, payloads, heap[r[c]].Header) :
       call' = [call EXCEPT ![c] = cl]
  /\ target' = [target EXCEPT ![c] = TargetBefore]
  /\ pc' = [pc EXCEPT ![c] = "exec"]
  /\ UNCHANGED <<BaseURL, Headers, middleware, useLog, heap, r, log, err, sent,
                 resp, httpArgs>>

\* jsonAPI.Get, jsonAPI.Put, jsonAPI.Post, jsonAPI.Delete: R() and execute.
ClientVerb(c, verbs, paths, params, payloads) ==
  /\ pc[c] = "idle"
  /\ Free # {}
  /\ LET h == R(Free)
     IN /\ r' = [r EXCEPT ![c] = h.id]
        /\ heap' = [heap EXCEPT ![h.id] = h.request]
  /\ \E cl \in CallArgs(verbs, paths, params, payloads, EmptyHeader) :
       call' = [call EXCEPT ![c] = cl]
  /\ target' = [target EXCEPT ![c] = TargetBefore]
  /\ pc' = [pc EXCEPT ![c] = "exec"]
  /\ UNCHANGED <<BaseURL, Headers, middleware, useLog, log, err, sent, resp,
                 httpArgs>>

\* execute: the method, the URL and the request body.
Build(c) ==
  /\ pc[c] = "exec"
  /\ LET o == executeBuild(BaseURL, heap[r[c]], call[c])
     IN /\ heap' = [heap EXCEPT ![r[c]] = o.request]
        /\ err' = [err EXCEPT ![c] = o.err]
        /\ log' = [log EXCEPT ![c] = @ \o o.log]
        /\ pc' = [pc EXCEPT ![c] = o.pc]
  /\ UNCHANGED <<BaseURL, Headers, middleware, useLog, r, call, sent, resp,
                 target, httpArgs>>

\* execute: the range over r.api.Headers, in one of the orders a map allows.
Merge(c) ==
  /\ pc[c] = "merge"
  /\ \E order \in Orders(DOMAIN Headers) :
       heap' = [heap EXCEPT ![r[c]].Header = AddAll(@, Headers, order)]
  /\ log' = [log EXCEPT ![c] = Append(@, EvMerge)]
  /\ pc' = [pc EXCEPT ![c] = "mw"]
  /\ UNCHANGED <<BaseURL, Headers, middleware, useLog, r, call, err, sent,
                 resp, target, httpArgs>>

\* execute: one turn of the range over r.api.middleware.
Middleware(c) ==
  /\ pc[c] = "mw"
  /\ MwDone(c) < Len(middleware)
  /\ \E ok \in BOOLEAN :
       /\ log' = [log EXCEPT ![c] = Append(@, EvMiddleware(middleware[MwDone(c) + 1], ok))]
       /\ err' = [err EXCEPT ![c] = IF ok THEN "nil" ELSE "middleware"]
       /\ pc' = [pc EXCEPT ![c] = IF ok THEN "mw" ELSE "done"]
  /\ UNCHANGED <<BaseURL, Headers, middleware, useLog, heap, r, call, sent,
                 resp, target, httpArgs>>

\* execute: client.Do fails.
DoFails(c) ==
  /\ pc[c] = "mw"
  /\ MwDone(c) = Len(middleware)
  /\ sent' = [sent EXCEPT ![c] = heap[r[c]]]
  /\ log' = [log EXCEPT ![c] = @ \o <<EvDo(FALSE), OnInternalError("transport")>>]
  /\ err' = [err EXCEPT ![c] = "transport"]
  /\ pc' = [pc EXCEPT ![c] = "done"]
  /\ UNCHANGED <<BaseURL, Headers, middleware, useLog, heap, r, call, resp,
                 target, httpArgs>>

\* execute: client.Do returns a response.
Do(c, responses) ==
  /\ pc[c] = "mw"
  /\ MwDone(c) = Len(middleware)
  /\ sent' = [sent EXCEPT ![c] = heap[r[c]]]
  /\ \E rs \in responses : resp' = [resp EXCEPT ![c] = rs]
  /\ log' = [log EXCEPT ![c] = Append(@, EvDo(TRUE))]
  /\ pc' = [pc EXCEPT ![c] = "resp"]
  /\ UNCHANGED <<BaseURL, Headers, middleware, useLog, heap, r, call, err,
                 target, httpArgs>>

\* execute: the status test, then handleHTTPError or handleSuccess.
Handle(c) ==
  /\ pc[c] = "resp"
  /\ IF IsHTTPError(resp[c].StatusCode)
     THEN LET o == handleHTTPError(resp[c])
          IN /\ log' = [log EXCEPT ![c] = @ \o o.log]
             /\ httpArgs' = [httpArgs EXCEPT ![c] = o.args]
             /\ UNCHANGED target
     ELSE LET o == handleSuccess(resp[c], target[c])
          IN /\ log' = [log EXCEPT ![c] = @ \o o.log]
             /\ target' = [target EXCEPT ![c] = o.target]
             /\ UNCHANGED httpArgs
  /\ pc' = [pc EXCEPT ![c] = "done"]
  /\ UNCHANGED <<BaseURL, Headers, middleware, useLog, heap, r, call, err,
                 sent, resp>>

\* The verb method has returned; the caller drops the handle.
Return(c) ==
  /\ pc[c] = "done"
  /\ pc' = [pc EXCEPT ![c] = "idle"]
  /\ heap' = [heap EXCEPT ![r[c]] = NewRequest]
  /\ r' = [r EXCEPT ![c] = 0]
  /\ call' = [call EXCEPT ![c] = NoCall]
  /\ log' = [log EXCEPT ![c] = <<>>]
  /\ err' = [err EXCEPT ![c] = "nil"]
  /\ sent' = [sent EXCEPT ![c] = NewRequest]
  /\ resp' = [resp EXCEPT ![c] = NoResponse]
  /\ target' = [target EXCEPT ![c] = TargetBefore]
  /\ httpArgs' = [httpArgs EXCEPT ![c] = NoArgs]
  /\ UNCHANGED <<BaseURL, Headers, middleware, useLog>>

\* ------------------------------------------------------------- specifications
InitCallers ==
  /\ heap = [id \in ObjIds |-> NewRequest]
  /\ pc = [c \in Callers |-> "idle"]
  /\ r = [c \in Callers |-> 0]
  /\ call = [c \in Callers |-> NoCall]
  /\ log = [c \in Callers |-> <<>>]
  /\ err = [c \in Callers |-> "nil"]
  /\ sent = [c \in Callers |-> NewRequest]
  /\ resp = [c \in Callers |-> NoResponse]
  /\ target = [c \in Callers |-> TargetBefore]
  /\ httpArgs = [c \in Callers |-> NoArgs]

\* One caller, any client: a JSONAPI literal with a base URL and static
\* headers, and no middleware yet.
Init ==
  /\ BaseURL \in BaseURLs
  /\ Headers \in StaticMaps
  /\ middleware = <<>>
  /\ useLog = <<>>
  /\ InitCallers

First == Min(Callers)

Next ==
  \/ Use
  \/ NewHandle(First)
  \/ SetHeader(First)
  \/ RequestVerb(First, Verbs, Paths, Params, Payloads)
  \/ ClientVerb(First, Verbs, Paths, Params, Payloads)
  \/ Build(First)
  \/ Merge(First)
  \/ Middleware(First)
  \/ DoFails(First)
  \/ Do(First, Responses)
  \/ Handle(First)
  \/ Return(First)

Spec == Init /\ [][Next]_vars

\* Several callers share one configured client and call its verb methods
\* concurrently; nothing configures the client meanwhile. Odd callers GET
\* /a, even callers POST a payload to /a with query parameters.
ConcMiddleware == <<"mwA", "mwB">>
ConcVerb(c) == IF c % 2 = 1 THEN "GET" ELSE "POST"
ConcParams(c) == IF c % 2 = 1 THEN "none" ELSE "ba"
ConcPayload(c) == IF c % 2 = 1 THEN "nil" ELSE "v1"
ConcResponses == {Response(200, BodyX, FALSE), Response(204, BodyEmpty, FALSE),
                  Response(404, BodyFull, FALSE), Response(500, BodyText, TRUE)}

InitConc ==
  /\ BaseURL = "http://h"
  /\ Headers = [k \in {"X-A"} |-> StaticValue[k]]
  /\ middleware = ConcMiddleware
  /\ useLog = <<ConcMiddleware>>
  /\ InitCallers

NextConc ==
  \E c \in Callers :
    \/ ClientVerb(c, {ConcVerb(c)}, {"/a"}, {ConcParams(c)}, {ConcPayload(c)})
    \/ Build(c)
    \/ Merge(c)
    \/ Middleware(c)
    \/ DoFails(c)
    \/ Do(c, ConcResponses)
    \/ Handle(c)
    \/ Return(c)

SpecConc == InitConc /\ [][NextConc]_vars

\* ------------------------------------------------------------- properties
Done(c) == pc[c] = "done"
Cbs(c) == Callbacks(log[c])
\* client.Do returned a response for caller c's call.
Responded(c) == \E i \in DOMAIN log[c] : log[c][i] = EvDo(TRUE)
Merged(c) == Count(log[c], "merge") = 1
StaticKeys(n) == {k \in DOMAIN Headers : Canon(k) = n}
Values(s) == {s[i] : i \in DOMAIN s}

RECURSIVE Flatten(_)
Flatten(ss) == IF ss = <<>> THEN <<>> ELSE Head(ss) \o Flatten(Tail(ss))

\* C1: when a verb call returns, exactly one of onSuccess, onHTTPError and
\* onInternalError has been invoked, whatever the outcome, and at no time
\* more than one.
ExactlyOneCallback ==
  \A c \in Callers :
    /\ Len(Cbs(c)) <= 1
    /\ Done(c) => Len(Cbs(c)) = 1

\* C2: a URL-parse, serialization, middleware or transport failure, a
\* body-read failure and a success-path decode failure each reach
\* onInternalError with the underlying error; a decode failure of an
\* HTTP-error body does not.
InternalErrorRouting ==
  \A c \in Callers :
    Done(c) =>
      /\ err[c] \in {"urlparse", "marshal", "middleware", "transport"}
           => Cbs(c) = <<OnInternalError(err[c])>>
      /\ Responded(c) /\ resp[c].readErr => Cbs(c) = <<OnInternalError("read")>>
      /\ ( /\ Responded(c) /\ ~resp[c].readErr /\ resp[c].StatusCode < 300
           /\ resp[c].Body.raw # ""
           /\ UnmarshalTarget(resp[c].Body, TargetBefore).err )
           => Cbs(c) = <<OnInternalError("decode")>>
      /\ ( /\ Responded(c) /\ ~resp[c].readErr /\ resp[c].StatusCode >= 300
           /\ UnmarshalError(resp[c].Body, NoArgs).err )
           => Count(log[c], "onInternalError") = 0

\* C3: once execute has marshalled the payload of a Put or Post and
\* json.Marshal has failed, the call is over: onInternalError has fired
\* with the serialization error and nothing else has happened, so no
\* middleware ran, the transport was not invoked, and neither onSuccess
\* nor onHTTPError fired.
MarshalFailureStops ==
  \A c \in Callers :
    ( /\ pc[c] \in {"merge", "mw", "resp", "done"}
      /\ call[c].verb \in BodyVerbs
      /\ call[c].payload # "nil"
      /\ Marshal(call[c].payload).err
      /\ ParseOK(BaseURL, call[c].path) )
    => /\ Done(c)
       /\ err[c] = "marshal"
       /\ log[c] = <<OnInternalError("marshal")>>

MarshalFailureWitness ==
  \E c \in Callers :
    Done(c) /\ call[c].verb = "POST" /\ call[c].payload = "chan" /\ err[c] = "marshal"

\* C4: the middleware functions run in the order the Use calls registered
\* them (call order, then argument order, duplicates kept), after the
\* static headers were merged and before the transport; after a middleware
\* error no later middleware runs and the transport is not dispatched.
MiddlewareOrder ==
  \A c \in Callers :
    LET mws == Select(log[c], {"mw"})
        registered == Flatten(useLog)
    IN /\ Len(mws) <= Len(registered)
       /\ \A i \in DOMAIN mws : mws[i].id = registered[i]
       /\ \A i \in DOMAIN log[c] :
            /\ log[c][i].e = "mw" => \E j \in 1..(i - 1) : log[c][j] = EvMerge
            /\ log[c][i].e = "do" =>
                 /\ Len(mws) = Len(registered)
                 /\ \A j \in DOMAIN log[c] : log[c][j].e = "mw" => j < i /\ log[c][j].ok
            /\ (log[c][i].e = "mw" /\ ~log[c][i].ok) =>
                 \A j \in DOMAIN log[c] : j > i => log[c][j].e \notin {"mw", "do"}

MiddlewareOrderWitness ==
  \E c \in Callers :
    /\ Done(c) /\ Responded(c)
    /\ useLog = << <<"mwA">>, <<"mwB">> >>
    /\ Select(log[c], {"mw"}) = <<EvMiddleware("mwA", TRUE), EvMiddleware("mwB", TRUE)>>

\* C5 as stated: for a name set both through SetHeader and in the static
\* Headers map, the request middleware sees and the transport gets carries
\* the static value, which has overwritten the per-call value.
StaticHeaderOverwrites ==
  \A c \in Callers : \A n \in CanonNames :
    (Merged(c) /\ call[c].perCall[n] # <<>> /\ StaticKeys(n) # {})
    => /\ HeaderGet(heap[r[c]].Header, n) \in {Headers[k] : k \in StaticKeys(n)}
       /\ PerCallValue \notin Values(heap[r[c]].Header[n])

\* C5 as amended: for such a name the request carries the per-call value
\* first and the static values after it, so the per-call value is the one
\* Header.Get returns.
PerCallHeaderFirst ==
  \A c \in Callers : \A n \in CanonNames :
    (Merged(c) /\ call[c].perCall[n] # <<>> /\ StaticKeys(n) # {})
    => LET h == heap[r[c]].Header[n]
       IN /\ HeaderGet(heap[r[c]].Header, n) = PerCallValue
          /\ Len(h) = 1 + Cardinality(StaticKeys(n))
          /\ Values(Tail(h)) = {Headers[k] : k \in StaticKeys(n)}
          /\ pc[c] \in {"resp", "done"} /\ Count(log[c], "do") = 1 => sent[c].Header[n] = h

PerCallHeaderWitness ==
  \E c \in Callers :
    /\ Done(c) /\ Responded(c)
    /\ call[c].perCall["X-A"] # <<>>
    /\ "X-A" \in DOMAIN Headers

\* C6 as stated: the status code alone classifies a response: 300 and
\* above ends in onHTTPError, never in onInternalError or onSuccess; below
\* 300 never ends in onHTTPError.
StatusAloneClassifies ==
  \A c \in Callers :
    (Done(c) /\ Responded(c)) =>
      /\ resp[c].StatusCode >= 300 => Cbs(c) = <<OnHTTPError>>
      /\ resp[c].StatusCode < 300 => Count(log[c], "onHTTPError") = 0

\* C6 as amended: 300 and above ends in onHTTPError when the body could be
\* read and in onInternalError when reading it failed, never in onSuccess;
\* below 300 never ends in onHTTPError.
StatusClassifiesReadBody ==
  \A c \in Callers :
    (Done(c) /\ Responded(c)) =>
      /\ resp[c].StatusCode >= 300 =>
           Cbs(c) = IF resp[c].readErr THEN <<OnInternalError("read")>> ELSE <<OnHTTPError>>
      /\ resp[c].StatusCode < 300 =>
           /\ Count(log[c], "onHTTPError") = 0
           /\ Cbs(c) \in {<<OnSuccess>>, <<OnInternalError("read")>>,
                          <<OnInternalError("decode")>>}

StatusClassifiesWitness ==
  \E c \in Callers :
    Done(c) /\ Responded(c) /\ resp[c].StatusCode = 300 /\ ~resp[c].readErr

\* The body is a JSON object whose member f has the type the Error struct
\* gives it.
Populates(b, f, type) == b.syntax = "object" /\ b.fields[f].t = type

SuccessPath ==
  \A c \in Callers :
    (Done(c) /\ Responded(c) /\ resp[c].StatusCode < 300 /\ ~resp[c].readErr) =>
      LET b == resp[c].Body
      IN /\ b.raw = "" => Cbs(c) = <<OnSuccess>> /\ target[c] = TargetBefore
         /\ b.syntax \in {"invalid", "scalar"} => Cbs(c) = <<OnInternalError("decode")>>
         /\ b = BodyXBad => Cbs(c) = <<OnInternalError("decode")>>
         /\ b = BodyX => Cbs(c) = <<OnSuccess>> /\ target[c] = [x |-> 1]
         /\ b \in {BodyNull, BodyFull, BodyMessage, BodyBadType} =>
              Cbs(c) = <<OnSuccess>> /\ target[c] = TargetBefore

SuccessPathWitness ==
  \E c \in Callers :
    /\ Done(c) /\ Responded(c) /\ ~resp[c].readErr
    /\ resp[c].StatusCode = 204 /\ resp[c].Body = BodyEmpty
    /\ Cbs(c) = <<OnSuccess>>

\* C9 as stated: whenever the transport returned a response, the body has
\* been read to its end and closed exactly once when the call returns, on
\* every outcome, a body-read failure included.
BodyDrainedAndClosed ==
  \A c \in Callers :
    (Done(c) /\ Responded(c)) =>
      /\ Count(log[c], "close") = 1
      /\ \E i \in DOMAIN log[c] : log[c][i] = EvRead(TRUE)

\* C9 as amended: whenever the transport returned a response, the body has
\* been read once, to its end unless the read failed, and then closed
\* exactly once when the call returns, on every outcome.
BodyReadAndClosed ==
  \A c \in Callers :
    /\ (Done(c) /\ Responded(c)) =>
         /\ Count(log[c], "close") = 1
         /\ \E i \in DOMAIN log[c] :
              /\ log[c][i] = EvRead(~resp[c].readErr)
              /\ i < Len(log[c]) /\ log[c][i + 1] = EvClose
         /\ Count(log[c], "read") = 1
    /\ ~Responded(c) => Count(log[c], "close") = 0

BodyReadAndClosedWitness ==
  \E c \in Callers :
    Done(c) /\ Responded(c) /\ resp[c].readErr /\ Count(log[c], "close") = 1

\* The header a client-level call's request carries after the merge.
MergedHeaders == {AddAll(EmptyHeader, Headers, o) : o \in Orders(DOMAIN Headers)}
\* The request caller c's arguments call for.
OwnRequest(c, header) ==
  [Method |-> call[c].verb,
   URL |-> FullURL(BaseURL, call[c].path, call[c].params),
   Header |-> header,
   Body |-> IF call[c].payload = "nil" THEN "nil" ELSE Marshal(call[c].payload).bytes]

\* C10: concurrent client-level calls on one shared client each work on a
\* request object of their own; what the transport is given for a call is
\* the verb, URL, headers and body of that call, and the callback that
\* fires for a call is the one its own response calls for.
NoCrossTalk ==
  \A c \in Callers :
    /\ pc[c] # "idle" =>
         /\ r[c] \in ObjIds
         /\ \A d \in Callers \ {c} : r[d] # r[c]
    /\ pc[c] \in {"merge", "mw", "resp"} =>
         \E h \in MergedHeaders \cup {EmptyHeader} :
           heap[r[c]] = OwnRequest(c, IF pc[c] = "merge" THEN EmptyHeader ELSE h)
    /\ Count(log[c], "do") = 1 => \E h \in MergedHeaders : sent[c] = OwnRequest(c, h)
    /\ (Done(c) /\ Responded(c) /\ ~resp[c].readErr) =>
         IF resp[c].StatusCode >= 300
         THEN Cbs(c) = <<OnHTTPError>> /\ httpArgs[c].Status = resp[c].Body.fields.status.n
         ELSE Cbs(c) = <<OnSuccess>>
    /\ ~Responded(c) => Count(log[c], "onSuccess") + Count(log[c], "onHTTPError") = 0

NoCrossTalkWitness ==
  \E c, d \in Callers :
    /\ c # d
    /\ Done(c) /\ Responded(c) /\ resp[c].StatusCode = 404
    /\ Done(d) /\ Responded(d) /\ resp[d].StatusCode = 200
    /\ call[c].verb # call[d].verb

====
